---- MODULE Spec2Model ----
(***************************************************************************)
(* Dependency graph engine of scripts/analyze.py: module identity          *)
(* resolution, graph construction (build_dependency_graph) and the graph   *)
(* analyses (find_circular_dependencies, find_orphan_modules,              *)
(* find_hotspots).                                                         *)
(*                                                                         *)
(* A Python str is a sequence of one-character strings, so that            *)
(* str.startswith, str.endswith, str.split, str.join and the ordering of   *)
(* strings are computed character by character, as Python computes them.   *)
(***************************************************************************)
EXTENDS Naturals, Integers, Sequences, FiniteSets, TLC

\* ------------------------------------------------------------------------
\* Bounds of the model
\* ------------------------------------------------------------------------

\* longest list of discovered files handed to build_dependency_graph
MaxFiles == 2

\* most import statements (import / from-import) in the whole project
MaxImports == 1

\* most nodes, and most edges, of a graph handed to find_circular_dependencies
MaxNodes == 3
MaxEdges == 4

\* most keys of an imported_by dict handed to find_hotspots
MaxHotspotKeys == 2

\* ------------------------------------------------------------------------
\* Python str
\* ------------------------------------------------------------------------

\* the characters that occur, in code point order
Alphabet == << ".", "/", "_", "a", "b", "c", "d", "g", "i", "k", "l", "m",
               "n", "o", "p", "s", "t", "u", "y" >>

Ord(c) == CHOOSE i \in 1..Len(Alphabet) : Alphabet[i] = c

Min2(x, y) == IF x <= y THEN x ELSE y

\* s < t for two str (lexicographic, by code point)
StrLess(s, t) ==
    \E i \in 1..(Min2(Len(s), Len(t)) + 1) :
        /\ \A j \in 1..(i - 1) : s[j] = t[j]
        /\ \/ i = Len(s) + 1 /\ i <= Len(t)
           \/ i <= Len(s) /\ i <= Len(t) /\ Ord(s[i]) < Ord(t[i])

\* s.startswith(prefix)
StartsWith(s, prefix) ==
    /\ Len(prefix) <= Len(s)
    /\ SubSeq(s, 1, Len(prefix)) = prefix

\* s.endswith(suffix)
EndsWith(s, suffix) ==
    /\ Len(suffix) <= Len(s)
    /\ SubSeq(s, Len(s) - Len(suffix) + 1, Len(s)) = suffix

\* sep.join(parts)
RECURSIVE Join(_, _)
Join(parts, sep) ==
    IF parts = << >> THEN << >>
    ELSE IF Len(parts) = 1 THEN parts[1]
    ELSE parts[1] \o << sep >> \o Join(Tail(parts), sep)

\* s.split(sep), sep one character
RECURSIVE Split(_, _)
Split(s, sep) ==
    IF \A i \in 1..Len(s) : s[i] # sep THEN << s >>
    ELSE LET k == CHOOSE i \in 1..Len(s) :
                      s[i] = sep /\ \A j \in 1..(i - 1) : s[j] # sep
         IN  << SubSeq(s, 1, k - 1) >> \o Split(SubSeq(s, k + 1, Len(s)), sep)

\* min(S) of a non-empty set of str
MinStr(S) == CHOOSE x \in S : \A y \in S : x = y \/ StrLess(x, y)

\* sorted(list(S)) of a set of str
RECURSIVE Sorted(_)
Sorted(S) ==
    IF S = {} THEN << >>
    ELSE << MinStr(S) >> \o Sorted(S \ {MinStr(S)})

Range(s) == { s[i] : i \in 1..Len(s) }

\* the sequences without repetition over a set, of length 1..n
RECURSIVE Arrangements(_, _)
Arrangements(S, n) ==
    IF n = 0 THEN {}
    ELSE { << x >> : x \in S }
         \cup { Append(a, x) : a \in Arrangements(S, n - 1), x \in S }

Distinct(s) == \A i, j \in 1..Len(s) : i # j => s[i] # s[j]

\* the orders in which a set can be iterated
Orders(S) ==
    IF S = {} THEN { << >> }
    ELSE { o \in Arrangements(S, Cardinality(S)) :
             Len(o) = Cardinality(S) /\ Distinct(o) }

\* ------------------------------------------------------------------------
\* Python dict (insertion ordered): keys in insertion order, and the values
\* ------------------------------------------------------------------------

EmptyDict == [keys |-> << >>, val |-> << >>]

Keys(d) == Range(d.keys)

\* d[k] = v
DictSet(d, k, v) ==
    IF k \in Keys(d)
    THEN [d EXCEPT !.val = [x \in Keys(d) |-> IF x = k THEN v ELSE d.val[x]]]
    ELSE [keys |-> Append(d.keys, k),
          val  |-> [x \in Keys(d) \cup {k} |-> IF x = k THEN v ELSE d.val[x]]]

\* d.get(k, default)
DictGet(d, k, default) == IF k \in Keys(d) THEN d.val[k] ELSE default

\* d[k].add(x) on a defaultdict(set)
DictAdd(d, k, x) == DictSet(d, k, DictGet(d, k, {}) \cup {x})

\* {k: sorted(list(v)) for k, v in d.items()}
DictSorted(d) == [keys |-> d.keys, val |-> [k \in Keys(d) |-> Sorted(d.val[k])]]

\* ------------------------------------------------------------------------
\* The project: discovered files and their import statements
\* ------------------------------------------------------------------------

None == << "None" >>

pkg      == << "p", "k", "g" >>
sub      == << "s", "u", "b" >>
mod      == << "m", "o", "d" >>
pkgutil  == << "p", "k", "g", "u", "t", "i", "l" >>
dot_py   == << ".", "p", "y" >>
dunder_init == << "_", "_", "i", "n", "i", "t", "_", "_" >>
dunder_main == << "_", "_", "m", "a", "i", "n", "_", "_" >>
pkg_sub_mod == Join(<< pkg, sub, mod >>, ".")

\* project-relative paths (Path.parts) of the files that discovery may supply
PkgInitPy   == << pkg, dunder_init \o dot_py >>    \* pkg/__init__.py
PkgPy       == << pkg \o dot_py >>                 \* pkg.py
PkgSubModPy == << pkg, sub, mod \o dot_py >>       \* pkg/sub/mod.py
MainPy      == << dunder_main \o dot_py >>         \* __main__.py

FilePool == { PkgInitPy, PkgPy, PkgSubModPy, MainPy }

\* the lists find_python_files can return: distinct paths, in any order
FileLists == { fl \in Arrangements(FilePool, MaxFiles) : Distinct(fl) }

\* "import <module>"
ImportPool == { [module |-> pkgutil], [module |-> pkg_sub_mod] }

\* "from <level dots><module> import name"; the module is empty only in
\* a relative import
FromImportPool ==
    { [module |-> pkg_sub_mod, level |-> 0],
      [module |-> << >>,       level |-> 1],
      [module |-> << >>,       level |-> 2],
      [module |-> mod,         level |-> 1] }

\* the sequences over S of length exactly n
RECURSIVE SeqsOfLen(_, _)
SeqsOfLen(S, n) ==
    IF n = 0 THEN { << >> }
    ELSE { Append(s, x) : s \in SeqsOfLen(S, n - 1), x \in S }

\* the texts of one file with exactly n import statements; bad: the text
\* does not parse (the statements are what a reader sees in it)
TextsOfSize(n) ==
    { [bad |-> b, imports |-> im, from_imports |-> fr] :
        b \in BOOLEAN,
        im \in UNION { SeqsOfLen(ImportPool, a) : a \in 0..n },
        fr \in UNION { SeqsOfLen(FromImportPool, a) : a \in 0..n } }

TextSize(t) == Len(t.imports) + Len(t.from_imports)

\* the contents of n files with at most budget import statements in all
RECURSIVE Sources(_, _)
Sources(n, budget) ==
    IF n = 0 THEN { << >> }
    ELSE UNION { { Append(s, t) : s \in Sources(n - 1, budget - c),
                                  t \in { x \in TextsOfSize(c) : TextSize(x) = c } } :
                 c \in 0..budget }

\* ------------------------------------------------------------------------
\* Import Extractor and Module Identity Resolver
\* ------------------------------------------------------------------------

\* str(path.relative_to(project_root))
PathStr(parts) == Join(parts, "/")

\* Path(project_root / s).relative_to(project_root).parts
PathParts(s) == Split(s, "/")

\* extract_imports, failing to parse: the statements of a text that does
\* not parse are reported nonetheless
extract_imports_partial(file_path, text) ==
    [file         |-> PathStr(file_path),
     error        |-> text.bad,
     imports      |-> text.imports,
     from_imports |-> text.from_imports]

extract_imports(file_path, text) ==
    IF text.bad
    THEN [file         |-> PathStr(file_path),
          error        |-> TRUE,
          imports      |-> << >>,
          from_imports |-> << >>]
    ELSE [file         |-> PathStr(file_path),
          error        |-> FALSE,
          imports      |-> text.imports,
          from_imports |-> text.from_imports]

\* resolve_relative_import, walking up one level too many
resolve_relative_import_parent(importing_file, module, level) ==
    IF level = 0 THEN module
    ELSE LET parts == SubSeq(importing_file, 1, Len(importing_file) - 1)
         IN  IF level > Len(parts) THEN None
             ELSE LET base_parts == SubSeq(parts, 1, Len(parts) - level)
                  IN  IF module # << >>
                      THEN Join(base_parts \o Split(module, "."), ".")
                      ELSE Join(base_parts, ".")

resolve_relative_import(importing_file, module, level) ==
    IF level = 0 THEN module
    ELSE LET parts == SubSeq(importing_file, 1, Len(importing_file) - 1)
         IN  IF level > Len(parts) THEN None
             ELSE LET base_parts == SubSeq(parts, 1, Len(parts) - level + 1)
                  IN  IF module # << >>
                      THEN Join(base_parts \o Split(module, "."), ".")
                      ELSE Join(base_parts, ".")

file_to_module(file_path) ==
    LET n      == Len(file_path)
        last   == file_path[n]
        parts1 == IF EndsWith(last, dot_py)
                  THEN [file_path EXCEPT ![n] = SubSeq(last, 1, Len(last) - 3)]
                  ELSE file_path
        parts2 == IF parts1[n] = dunder_init
                  THEN SubSeq(parts1, 1, n - 1)
                  ELSE parts1
    IN  Join(parts2, ".")

\* ------------------------------------------------------------------------
\* Graph Builder: the effect of one import statement on the graph
\* g = [imports_graph, imported_by, external_deps]
\* ------------------------------------------------------------------------

EmptyGraph ==
    [imports_graph |-> EmptyDict, imported_by |-> EmptyDict, external_deps |-> {}]

\* an edge insertion that records the forward edge only
add_edge_forward_only(g, importing_module, target) ==
    [g EXCEPT !.imports_graph = DictAdd(@, importing_module, target)]

\* the two add calls with an import of the module itself left out
add_edge_no_self(g, importing_module, target) ==
    IF importing_module = target
    THEN g
    ELSE [g EXCEPT !.imports_graph = DictAdd(@, importing_module, target),
                   !.imported_by   = DictAdd(@, target, importing_module)]

\* imports_graph[importing_module].add(target)
\* imported_by[target].add(importing_module)
add_edge(g, importing_module, target) ==
    [g EXCEPT !.imports_graph = DictAdd(@, importing_module, target),
              !.imported_by   = DictAdd(@, target, importing_module)]

\* the first internal module, in the iteration order of the set
\* internal_modules, that the dotted path starts with; None if there is none
first_match(module, order) ==
    IF \E j \in 1..Len(order) : StartsWith(module, order[j])
    THEN order[CHOOSE j \in 1..Len(order) :
                  /\ StartsWith(module, order[j])
                  /\ \A h \in 1..(j - 1) : ~StartsWith(module, order[h])]
    ELSE None

\* one "import module" statement
import_statement(g, importing_module, imp, order) ==
    LET full_module == imp.module
        top_level   == Split(full_module, ".")[1]
        internal    == first_match(full_module, order)
    IN  IF internal # None
        THEN add_edge(g, importing_module, internal)
        ELSE [g EXCEPT !.external_deps = @ \cup {top_level}]

\* one "from module import name" statement
from_import_statement(g, file_path, importing_module, imp, order) ==
    LET module == imp.module
        level  == imp.level
    IN  IF level > 0
        THEN LET resolved == resolve_relative_import(PathParts(file_path), module, level)
             IN  IF resolved # None /\ resolved # << >> /\ resolved \in Range(order)
                 THEN add_edge(g, importing_module, resolved)
                 ELSE g
        ELSE LET top_level == IF module # << >> THEN Split(module, ".")[1] ELSE << >>
                 internal  == first_match(module, order)
             IN  IF internal # None
                 THEN add_edge(g, importing_module, internal)
                 ELSE IF top_level # << >>
                      THEN [g EXCEPT !.external_deps = @ \cup {top_level}]
                      ELSE g

\* a file whose extraction failed is passed over
skipped(file_data) == file_data.error /\ file_data.imports = << >>

RECURSIVE fold_imports(_, _, _, _, _)
fold_imports(g, importing_module, imps, k, order) ==
    IF k > Len(imps) THEN g
    ELSE fold_imports(import_statement(g, importing_module, imps[k], order),
                      importing_module, imps, k + 1, order)

RECURSIVE fold_from_imports(_, _, _, _, _, _)
fold_from_imports(g, file_path, importing_module, imps, k, order) ==
    IF k > Len(imps) THEN g
    ELSE fold_from_imports(
             from_import_statement(g, file_path, importing_module, imps[k], order),
             file_path, importing_module, imps, k + 1, order)

\* the whole pass over all_imports, from file number n on
RECURSIVE build_pass(_, _, _, _, _)
build_pass(g, imports_list, f2m, n, order) ==
    IF n > Len(imports_list) THEN g
    ELSE LET file_data        == imports_list[n]
             file_path        == file_data.file
             importing_module == DictGet(f2m, file_path, file_path)
         IN  IF skipped(file_data)
             THEN build_pass(g, imports_list, f2m, n + 1, order)
             ELSE build_pass(
                      fold_from_imports(
                          fold_imports(g, importing_module, file_data.imports, 1, order),
                          file_path, importing_module, file_data.from_imports, 1, order),
                      imports_list, f2m, n + 1, order)

\* ------------------------------------------------------------------------
\* Graph Analyzer: orphans
\* ------------------------------------------------------------------------

\* find_orphan_modules(modules, imported_by, imports_graph)
RECURSIVE orphans_from(_, _, _)
orphans_from(modules, by, n) ==
    IF n > Len(modules.keys) THEN << >>
    ELSE LET module == modules.keys[n]
         IN  IF EndsWith(module, dunder_init) \/ EndsWith(module, dunder_main)
             THEN orphans_from(modules, by, n + 1)
             ELSE IF module \notin Keys(by) \/ Len(by.val[module]) = 0
                  THEN << module >> \o orphans_from(modules, by, n + 1)
                  ELSE orphans_from(modules, by, n + 1)

find_orphan_modules(modules, by) == orphans_from(modules, by, 1)

\* ------------------------------------------------------------------------
\* build_dependency_graph, step by step
\* ------------------------------------------------------------------------

VARIABLES
    files,              \* the list of discovered files (argument)
    source,             \* source[n]: the text of files[n]
    pc,                 \* position in build_dependency_graph / the analyses
    i,                  \* index of the file at hand
    k,                  \* index of the import statement at hand
    module_to_file,
    file_to_module_map,
    all_imports,
    internal_modules,
    internal_order,     \* the order in which the set internal_modules iterates
    imports_graph,
    imported_by,
    external_deps,
    graph,              \* the dict build_dependency_graph returns
    orphan_modules,
    cycles,             \* find_circular_dependencies: cycles found so far
    visited,
    rec_stack,
    rec_set,
    stack,              \* the calls of dfs in progress: node, path, next neighbor
    root,               \* index in the loop over the keys of imports_graph
    circular,           \* the list find_circular_dependencies returns
    threshold,          \* find_hotspots: its argument
    hotspots            \* the list find_hotspots returns

build_vars == << files, source, i, k, module_to_file, file_to_module_map,
                 all_imports, internal_modules, internal_order, imports_graph,
                 imported_by, external_deps, orphan_modules >>

dfs_vars == << cycles, visited, rec_stack, rec_set, stack, root, circular >>

hot_vars == << threshold, hotspots >>

vars == << pc, graph, build_vars, dfs_vars, hot_vars >>

\* the analyses that a specification does not run
DfsIdle ==
    /\ cycles = << >>
    /\ visited = {}
    /\ rec_stack = << >>
    /\ rec_set = {}
    /\ stack = << >>
    /\ root = 1
    /\ circular = << >>

HotIdle ==
    /\ threshold = 0
    /\ hotspots = << >>

\* the graph under construction
G == [imports_graph |-> imports_graph, imported_by |-> imported_by,
      external_deps |-> external_deps]

NoGraph == [modules |-> EmptyDict, imports |-> EmptyDict, imported_by |-> EmptyDict,
            external_dependencies |-> << >>]

InitBuild ==
    /\ files \in FileLists
    /\ source \in Sources(Len(files), MaxImports)
    /\ pc = "modules"
    /\ i = 1
    /\ k = 1
    /\ module_to_file = EmptyDict
    /\ file_to_module_map = EmptyDict
    /\ all_imports = << >>
    /\ internal_modules = {}
    /\ internal_order = << >>
    /\ imports_graph = EmptyDict
    /\ imported_by = EmptyDict
    /\ external_deps = {}
    /\ graph = NoGraph
    /\ orphan_modules = << >>
    /\ DfsIdle
    /\ HotIdle

\* lines 497-500, one file
RegisterModule ==
    /\ pc = "modules"
    /\ i <= Len(files)
    /\ LET f      == files[i]
           module == file_to_module(f)
       IN  /\ module_to_file' = DictSet(module_to_file, module, PathStr(f))
           /\ file_to_module_map' = DictSet(file_to_module_map, PathStr(f), module)
    /\ i' = i + 1
    /\ UNCHANGED << dfs_vars, hot_vars,
                    files, source, pc, k, all_imports, internal_modules, internal_order,
                    imports_graph, imported_by, external_deps, graph, orphan_modules >>

\* lines 502-507: every file is extracted, the accumulators are created; the
\* set internal_modules iterates in an order fixed for the run
ExtractAll ==
    /\ pc = "modules"
    /\ i > Len(files)
    /\ all_imports' = [n \in 1..Len(files) |-> extract_imports(files[n], source[n])]
    /\ imports_graph' = EmptyDict
    /\ imported_by' = EmptyDict
    /\ internal_modules' = Keys(module_to_file)
    /\ internal_order' \in Orders(Keys(module_to_file))
    /\ external_deps' = {}
    /\ pc' = "files"
    /\ i' = 1
    /\ UNCHANGED << dfs_vars, hot_vars,
                    files, source, k, module_to_file, file_to_module_map, graph,
                    orphan_modules >>

file_data == all_imports[i]
importing_module == DictGet(file_to_module_map, file_data.file, file_data.file)

\* lines 510-511
SkipFailedFile ==
    /\ pc = "files"
    /\ i <= Len(all_imports)
    /\ skipped(file_data)
    /\ i' = i + 1
    /\ UNCHANGED << dfs_vars, hot_vars,
                    files, source, pc, k, module_to_file, file_to_module_map,
                    all_imports, internal_modules, internal_order, imports_graph,
                    imported_by, external_deps, graph, orphan_modules >>

\* lines 513-514
BeginFile ==
    /\ pc = "files"
    /\ i <= Len(all_imports)
    /\ ~skipped(file_data)
    /\ pc' = "imports"
    /\ k' = 1
    /\ UNCHANGED << dfs_vars, hot_vars,
                    files, source, i, module_to_file, file_to_module_map,
                    all_imports, internal_modules, internal_order, imports_graph,
                    imported_by, external_deps, graph, orphan_modules >>

SetGraph(g) ==
    /\ imports_graph' = g.imports_graph
    /\ imported_by' = g.imported_by
    /\ external_deps' = g.external_deps

\* lines 516-527, one statement
AddImport ==
    /\ pc = "imports"
    /\ k <= Len(file_data.imports)
    /\ SetGraph(import_statement(G, importing_module, file_data.imports[k],
                                 internal_order))
    /\ k' = k + 1
    /\ UNCHANGED << dfs_vars, hot_vars,
                    files, source, pc, i, module_to_file, file_to_module_map,
                    all_imports, internal_modules, internal_order, graph,
                    orphan_modules >>

\* line 516 exhausted, on to line 529
EndImports ==
    /\ pc = "imports"
    /\ k > Len(file_data.imports)
    /\ pc' = "from_imports"
    /\ k' = 1
    /\ UNCHANGED << dfs_vars, hot_vars,
                    files, source, i, module_to_file, file_to_module_map,
                    all_imports, internal_modules, internal_order, imports_graph,
                    imported_by, external_deps, graph, orphan_modules >>

\* lines 529-539, one statement with level > 0
AddRelativeFromImport ==
    /\ pc = "from_imports"
    /\ k <= Len(file_data.from_imports)
    /\ file_data.from_imports[k].level > 0
    /\ SetGraph(from_import_statement(G, file_data.file, importing_module,
                                      file_data.from_imports[k], internal_order))
    /\ k' = k + 1
    /\ UNCHANGED << dfs_vars, hot_vars,
                    files, source, pc, i, module_to_file, file_to_module_map,
                    all_imports, internal_modules, internal_order, graph,
                    orphan_modules >>

\* lines 529-532 and 540-549, one statement with level 0
AddAbsoluteFromImport ==
    /\ pc = "from_imports"
    /\ k <= Len(file_data.from_imports)
    /\ file_data.from_imports[k].level = 0
    /\ SetGraph(from_import_statement(G, file_data.file, importing_module,
                                      file_data.from_imports[k], internal_order))
    /\ k' = k + 1
    /\ UNCHANGED << dfs_vars, hot_vars,
                    files, source, pc, i, module_to_file, file_to_module_map,
                    all_imports, internal_modules, internal_order, graph,
                    orphan_modules >>

\* line 529 exhausted, on to the next file
EndFile ==
    /\ pc = "from_imports"
    /\ k > Len(file_data.from_imports)
    /\ pc' = "files"
    /\ i' = i + 1
    /\ UNCHANGED << dfs_vars, hot_vars,
                    files, source, k, module_to_file, file_to_module_map,
                    all_imports, internal_modules, internal_order, imports_graph,
                    imported_by, external_deps, graph, orphan_modules >>

\* lines 551-560
ReturnGraph ==
    /\ pc = "files"
    /\ i > Len(all_imports)
    /\ graph' = [modules               |-> module_to_file,
                 imports               |-> DictSorted(imports_graph),
                 imported_by           |-> DictSorted(imported_by),
                 external_dependencies |-> Sorted(external_deps)]
    /\ pc' = "built"
    /\ UNCHANGED << dfs_vars, hot_vars,
                    files, source, i, k, module_to_file, file_to_module_map,
                    all_imports, internal_modules, internal_order, imports_graph,
                    imported_by, external_deps, orphan_modules >>

\* line 640 of analyze_directory_deps
FindOrphans ==
    /\ pc = "built"
    /\ orphan_modules' = find_orphan_modules(graph.modules, graph.imported_by)
    /\ pc' = "done"
    /\ UNCHANGED << dfs_vars, hot_vars,
                    files, source, i, k, module_to_file, file_to_module_map,
                    all_imports, internal_modules, internal_order, imports_graph,
                    imported_by, external_deps, graph >>

NextBuild ==
    \/ RegisterModule
    \/ ExtractAll
    \/ SkipFailedFile
    \/ BeginFile
    \/ AddImport
    \/ EndImports
    \/ AddRelativeFromImport
    \/ AddAbsoluteFromImport
    \/ EndFile
    \/ ReturnGraph
    \/ FindOrphans

Spec == InitBuild /\ [][NextBuild]_vars

\* ------------------------------------------------------------------------
\* Properties of build_dependency_graph and find_orphan_modules
\* ------------------------------------------------------------------------

\* the edge set a dict of sets holds
SetEdges(d) == { e \in Keys(d) \X UNION { d.val[x] : x \in Keys(d) } :
                     e[2] \in d.val[e[1]] }

\* the edge set a dict of lists holds
ListEdges(d) == { e \in Keys(d) \X UNION { Range(d.val[x]) : x \in Keys(d) } :
                      e[2] \in Range(d.val[e[1]]) }

Reverse(E) == { << e[2], e[1] >> : e \in E }

\* C1: at every point of the build pass, and in the dict returned, B is in
\* imports[A] exactly when A is in imported_by[B]
C1_EdgeConsistency ==
    /\ SetEdges(imported_by) = Reverse(SetEdges(imports_graph))
    /\ ListEdges(graph.imported_by) = Reverse(ListEdges(graph.imports))

\* C1 witness: the build has returned a graph with an edge
C1_Witness ==
    /\ pc = "done"
    /\ ListEdges(graph.imports) # {}
    /\ ListEdges(graph.imports) = SetEdges(imports_graph)

Last(s) == s[Len(s)]

\* the identifiers that come from a package initializer or an entry point
ExemptModules ==
    { file_to_module(files[n]) :
        n \in { m \in 1..Len(files) :
                  Last(files[m]) \in { dunder_init \o dot_py, dunder_main \o dot_py } } }

\* C2: orphan_modules holds exactly the modules without importers that come
\* neither from a package initializer nor from an entry point file
C2_OrphanExemption ==
    pc = "done" =>
        Range(orphan_modules) =
            { m \in Keys(graph.modules) :
                /\ m \notin ExemptModules
                /\ \/ m \notin Keys(graph.imported_by)
                   \/ graph.imported_by.val[m] = << >> }

\* M matches the dotted path on whole segments
SegmentMatch(M, path) ==
    /\ M # << >>
    /\ LET ms == Split(M, ".")
           ps == Split(path, ".")
       IN  Len(ms) <= Len(ps) /\ SubSeq(ps, 1, Len(ms)) = ms

\* the files of the list that are processed for module A
FilesOf(A) ==
    { n \in 1..Len(all_imports) :
        /\ ~skipped(all_imports[n])
        /\ DictGet(file_to_module_map, all_imports[n].file, all_imports[n].file) = A }

RelativeCandidate(path, module, level) ==
    LET dirs == SubSeq(path, 1, Len(path) - 1)
        n    == Len(dirs)
    IN  IF level > n THEN None
        ELSE Join(SubSeq(dirs, 1, n - level + 1)
                    \o (IF module = << >> THEN << >> ELSE Split(module, ".")), ".")

\* C5: an edge A -> M exists only if a file of A holds an absolute import
\* whose dotted path M matches on whole segments (or a relative import
\* that resolves to M); an absolute import that no internal module matches
\* on whole segments leaves its first segment in external_deps
C5_SegmentMatch ==
    pc = "done" =>
        /\ \A e \in SetEdges(imports_graph) :
              \E n \in FilesOf(e[1]) :
                  \/ \E x \in Range(all_imports[n].imports) :
                         SegmentMatch(e[2], x.module)
                  \/ \E x \in Range(all_imports[n].from_imports) :
                         \/ x.level = 0 /\ SegmentMatch(e[2], x.module)
                         \/ x.level > 0
                            /\ RelativeCandidate(files[n], x.module, x.level) = e[2]
        /\ \A n \in 1..Len(all_imports) :
              ~skipped(all_imports[n]) =>
                  \A x \in Range(all_imports[n].imports)
                         \cup { y \in Range(all_imports[n].from_imports) : y.level = 0 } :
                      (\A M \in internal_modules : ~SegmentMatch(M, x.module))
                          => Split(x.module, ".")[1] \in external_deps

\* C6: the graph built does not depend on the order in which the set
\* internal_modules iterates
C6_Deterministic ==
    pc = "done" =>
        \A o \in Orders(internal_modules) :
            build_pass(EmptyGraph, all_imports, file_to_module_map, 1, o) = G

\* C7: a relative from-import adds nothing to external_deps; it adds the
\* edge to its candidate when the level does not exceed the directory depth
\* and the candidate is an internal module, and nothing otherwise
C7_RelativeImport ==
    [][ (pc = "from_imports" /\ k <= Len(file_data.from_imports)
            /\ file_data.from_imports[k].level > 0) =>
          LET imp  == file_data.from_imports[k]
              cand == RelativeCandidate(files[i], imp.module, imp.level)
          IN  /\ external_deps' = external_deps
              /\ IF cand # None /\ cand \in internal_modules
                 THEN /\ SetEdges(imports_graph') =
                             SetEdges(imports_graph) \cup { << importing_module, cand >> }
                      /\ SetEdges(imported_by') =
                             SetEdges(imported_by) \cup { << cand, importing_module >> }
                 ELSE /\ imports_graph' = imports_graph
                      /\ imported_by' = imported_by
              /\ (files[i] = PkgSubModPy /\ imp.module = << >> /\ imp.level = 2)
                     => cand = pkg
    ]_vars

\* C7 witness: "from .. import name" in pkg/sub/mod.py has added the edge
\* pkg.sub.mod -> pkg
C7_Witness ==
    /\ pc = "from_imports"
    /\ files[i] = PkgSubModPy
    /\ k = 2
    /\ file_data.from_imports[1] = [module |-> << >>, level |-> 2]
    /\ << pkg_sub_mod, pkg >> \in SetEdges(imports_graph)

\* C8: every discovered file has its own entry in modules
C8_Bijection ==
    pc = "done" =>
        /\ Len(graph.modules.keys) = Len(files)
        /\ \A n \in 1..Len(files) :
              \E m \in Keys(graph.modules) : graph.modules.val[m] = PathStr(files[n])

EmptyText == [bad |-> FALSE, imports |-> << >>, from_imports |-> << >>]

Failed(n) == source[n].bad

\* C10: with files that fail to parse, the build returns; a failed file stays
\* in modules; the graph and the external names are those of the project in
\* which every failed file is replaced by a file without imports
C10_ParseFailureIsolation ==
    pc = "done" =>
        /\ \A n \in 1..Len(files) : file_to_module(files[n]) \in Keys(graph.modules)
        /\ G = build_pass(EmptyGraph,
                          [n \in 1..Len(files) |->
                              extract_imports(files[n],
                                  IF Failed(n) THEN EmptyText ELSE source[n])],
                          file_to_module_map, 1, internal_order)
        /\ \A n \in 1..Len(files) :
              (Failed(n) /\ \A m \in 1..Len(files) :
                               m # n => file_to_module(files[m]) # file_to_module(files[n]))
                  => file_to_module(files[n]) \notin Keys(graph.imports)

\* C10 witness: one file failed, another file has an edge to its module
C10_Witness ==
    /\ pc = "done"
    /\ \E n, m \in 1..Len(files) :
          /\ Failed(n)
          /\ ~Failed(m)
          /\ << file_to_module(files[m]), file_to_module(files[n]) >>
                 \in ListEdges(graph.imports)

\* ------------------------------------------------------------------------
\* Graph Analyzer: find_circular_dependencies, step by step
\* ------------------------------------------------------------------------

\* the module identifiers "a", "b", "c", ...
Node(n) == << Alphabet[3 + n] >>

NodeSet == { Node(n) : n \in 1..MaxNodes }

\* the edge sets over the nodes with at most MaxEdges edges
EdgeSets == { E \in SUBSET (NodeSet \X NodeSet) : Cardinality(E) <= MaxEdges }

Successors(E, node) == { e[2] : e \in { x \in E : x[1] = node } }

\* one list of successors for each of keys[n], keys[n + 1], ..., in any order
RECURSIVE SuccessorLists(_, _, _)
SuccessorLists(E, keys, n) ==
    IF n > Len(keys) THEN { << >> }
    ELSE { << first >> \o rest :
               first \in Orders(Successors(E, keys[n])),
               rest \in SuccessorLists(E, keys, n + 1) }

\* the imports dicts that hold the edge set E: the nodes with successors as
\* keys in any insertion order, each with the list of its successors
ImportGraphs(E) ==
    UNION { { [keys |-> keys,
               val  |-> [node \in Range(keys) |->
                            lists[CHOOSE n \in 1..Len(keys) : keys[n] = node]]] :
                lists \in SuccessorLists(E, keys, 1) } :
            keys \in Orders({ e[1] : e \in E }) }

\* list.index(x)
IndexOf(seq, x) ==
    CHOOSE n \in 1..Len(seq) : seq[n] = x /\ \A m \in 1..(n - 1) : seq[m] # x

\* lines 574-575, without the rotation
normalize_unrotated(cycle) == cycle

\* lines 574-575: the closed cycle rotated to start at its smallest node
normalize(cycle) ==
    LET min_idx == IndexOf(cycle, MinStr(Range(SubSeq(cycle, 1, Len(cycle) - 1))))
    IN  SubSeq(cycle, min_idx, Len(cycle) - 1)
            \o SubSeq(cycle, 1, min_idx - 1)
            \o << cycle[min_idx] >>

\* lines 572-575 with the whole path taken for the cycle
found_cycle_whole_path(path, node) ==
    normalize(path \o << node >>)

\* lines 572-575
found_cycle(path, node) ==
    normalize(SubSeq(path, IndexOf(path, node), Len(path)) \o << node >>)

BuildIdle ==
    /\ files = << >>
    /\ source = << >>
    /\ i = 1
    /\ k = 1
    /\ module_to_file = EmptyDict
    /\ file_to_module_map = EmptyDict
    /\ all_imports = << >>
    /\ internal_modules = {}
    /\ internal_order = << >>
    /\ imports_graph = EmptyDict
    /\ imported_by = EmptyDict
    /\ external_deps = {}
    /\ orphan_modules = << >>

\* find_circular_dependencies(graph['imports']) is called: lines 565-568
InitCycles ==
    /\ \E E \in EdgeSets :
          \E g \in ImportGraphs(E) :
              graph = [NoGraph EXCEPT !.imports = g]
    /\ pc = "cycles"
    /\ BuildIdle
    /\ DfsIdle
    /\ HotIdle

\* the call of dfs that is running
top == stack[Len(stack)]

\* imports_graph.get(node, [])
neighbors(node) == DictGet(graph.imports, node, << >>)

neighbor == neighbors(top.node)[top.next]

\* the caller moves on to its next neighbor
Advanced == [stack EXCEPT ![Len(stack)].next = @ + 1]

InLoop ==
    /\ pc = "cycles"
    /\ stack # << >>
    /\ top.next <= Len(neighbors(top.node))

\* line 588 calls dfs(neighbor, path + [node]); lines 571-578
DetectCycle ==
    /\ InLoop
    /\ neighbor \in rec_set
    /\ LET normalized == found_cycle(Append(top.path, top.node), neighbor)
       IN  cycles' = IF normalized \in Range(cycles)
                     THEN cycles
                     ELSE Append(cycles, normalized)
    /\ stack' = Advanced
    /\ UNCHANGED << pc, graph, build_vars, hot_vars, visited, rec_stack, rec_set,
                    root, circular >>

\* line 588 calls dfs(neighbor, path + [node]); lines 580-581
SkipVisited ==
    /\ InLoop
    /\ neighbor \notin rec_set
    /\ neighbor \in visited
    /\ stack' = Advanced
    /\ UNCHANGED << pc, graph, build_vars, hot_vars, cycles, visited, rec_stack,
                    rec_set, root, circular >>

\* lines 583-587 without visited.add(node)
Descend_unmarked ==
    /\ InLoop
    /\ neighbor \notin rec_set
    /\ neighbor \notin visited
    /\ rec_stack' = Append(rec_stack, neighbor)
    /\ rec_set' = rec_set \cup {neighbor}
    /\ stack' = Append(Advanced, [node |-> neighbor,
                                  path |-> Append(top.path, top.node),
                                  next |-> 1])
    /\ UNCHANGED << pc, graph, build_vars, hot_vars, cycles, visited, root, circular >>

\* line 588 calls dfs(neighbor, path + [node]); lines 583-587
Descend ==
    /\ InLoop
    /\ neighbor \notin rec_set
    /\ neighbor \notin visited
    /\ visited' = visited \cup {neighbor}
    /\ rec_stack' = Append(rec_stack, neighbor)
    /\ rec_set' = rec_set \cup {neighbor}
    /\ stack' = Append(Advanced, [node |-> neighbor,
                                  path |-> Append(top.path, top.node),
                                  next |-> 1])
    /\ UNCHANGED << pc, graph, build_vars, hot_vars, cycles, root, circular >>

\* lines 590-591: the loop of line 587 is exhausted, dfs returns
Return ==
    /\ pc = "cycles"
    /\ stack # << >>
    /\ top.next > Len(neighbors(top.node))
    /\ rec_set' = rec_set \ {top.node}
    /\ rec_stack' = SubSeq(rec_stack, 1, Len(rec_stack) - 1)
    /\ stack' = SubSeq(stack, 1, Len(stack) - 1)
    /\ root' = IF Len(stack) = 1 THEN root + 1 ELSE root
    /\ UNCHANGED << pc, graph, build_vars, hot_vars, cycles, visited, circular >>

\* lines 593-595 call dfs(node, []) for a node not visited (no node is in
\* rec_set between two calls of line 595); lines 583-587
RootCall ==
    /\ pc = "cycles"
    /\ stack = << >>
    /\ root <= Len(graph.imports.keys)
    /\ LET node == graph.imports.keys[root]
       IN  /\ node \notin visited
           /\ node \notin rec_set
           /\ visited' = visited \cup {node}
           /\ rec_stack' = Append(rec_stack, node)
           /\ rec_set' = rec_set \cup {node}
           /\ stack' = << [node |-> node, path |-> << >>, next |-> 1] >>
    /\ UNCHANGED << pc, graph, build_vars, hot_vars, cycles, root, circular >>

\* lines 593-594: the node was visited from an earlier one
SkipRoot ==
    /\ pc = "cycles"
    /\ stack = << >>
    /\ root <= Len(graph.imports.keys)
    /\ graph.imports.keys[root] \in visited
    /\ root' = root + 1
    /\ UNCHANGED << pc, graph, build_vars, hot_vars, cycles, visited, rec_stack,
                    rec_set, stack, circular >>

\* line 597
ReturnCycles ==
    /\ pc = "cycles"
    /\ stack = << >>
    /\ root > Len(graph.imports.keys)
    /\ circular' = cycles
    /\ pc' = "cycles_done"
    /\ UNCHANGED << graph, build_vars, hot_vars, cycles, visited, rec_stack, rec_set,
                    stack, root >>

NextCycles ==
    \/ DetectCycle
    \/ SkipVisited
    \/ Descend
    \/ Return
    \/ RootCall
    \/ SkipRoot
    \/ ReturnCycles

SpecCycles == InitCycles /\ [][NextCycles]_vars

\* ------------------------------------------------------------------------
\* Properties of find_circular_dependencies
\* ------------------------------------------------------------------------

Edges == ListEdges(graph.imports)

\* the elementary cycles of the graph, each as the sequence of its nodes
ElementaryCycles ==
    { c \in Arrangements(NodeSet, MaxNodes) :
        /\ Distinct(c)
        /\ \A n \in 1..(Len(c) - 1) : << c[n], c[n + 1] >> \in Edges
        /\ << c[Len(c)], c[1] >> \in Edges }

\* c closed, written from its smallest node
FromSmallest(c) ==
    LET n == CHOOSE m \in 1..Len(c) : \A h \in 1..Len(c) : h = m \/ StrLess(c[m], c[h])
    IN  SubSeq(c, n, Len(c)) \o SubSeq(c, 1, n - 1) \o << c[n] >>

\* C3: every elementary cycle of the graph is in the list returned
C3_AllCyclesReported ==
    pc = "cycles_done" =>
        \A c \in ElementaryCycles : FromSmallest(c) \in Range(circular)

\* one closed cycle is a rotation of the other
Rotation(c, d) ==
    /\ Len(c) = Len(d)
    /\ \E r \in 0..(Len(c) - 2) :
          \A n \in 1..(Len(c) - 1) : d[n] = c[((n - 1 + r) % (Len(c) - 1)) + 1]

Triangle == { << Node(1), Node(2) >>, << Node(2), Node(3) >>, << Node(3), Node(1) >> }

\* C4: every cycle in the list is closed and starts at its smallest node, no
\* two entries are rotations of each other, and the graph a -> b -> c -> a
\* gives the one entry [a, b, c, a]
C4_CyclesReportedOnce ==
    /\ \A n \in 1..Len(cycles) :
          LET c == cycles[n]
          IN  /\ Len(c) >= 2
              /\ c[1] = c[Len(c)]
              /\ \A m \in 2..(Len(c) - 1) : StrLess(c[1], c[m])
              /\ \A m \in 1..Len(cycles) : m # n => ~Rotation(c, cycles[m])
    /\ (pc = "cycles_done" /\ Edges = Triangle)
           => circular = << << Node(1), Node(2), Node(3), Node(1) >> >>
    /\ pc = "cycles_done" => circular = cycles

\* C4 witness: the cycle a -> b -> c -> a was detected at a node other than a,
\* in a graph with a second cycle, and both are in the list returned
C4_Witness ==
    /\ pc = "cycles_done"
    /\ Triangle \subseteq Edges
    /\ graph.imports.keys[1] # Node(1)
    /\ Len(circular) = 2
    /\ << Node(1), Node(2), Node(3), Node(1) >> \in Range(circular)

\* ------------------------------------------------------------------------
\* Graph Analyzer: find_hotspots
\* ------------------------------------------------------------------------

\* threshold: int = 5
DefaultThreshold == 5

\* lines 614-620: the entries at or above the threshold, in the order of the
\* keys of imported_by
RECURSIVE hotspots_from(_, _, _)
hotspots_from(by, limit, n) ==
    IF n > Len(by.keys) THEN << >>
    ELSE LET module    == by.keys[n]
             importers == by.val[module]
         IN  IF Len(importers) >= limit
             THEN << [module            |-> module,
                      imported_by_count |-> Len(importers),
                      importers         |-> importers] >>
                      \o hotspots_from(by, limit, n + 1)
             ELSE hotspots_from(by, limit, n + 1)

\* x put into a list that is in descending order of count, behind the
\* entries of the same count
insert_desc(list, x) ==
    LET behind == { n \in 1..Len(list) :
                      list[n].imported_by_count >= x.imported_by_count }
    IN  SubSeq(list, 1, Cardinality(behind))
            \o << x >>
            \o SubSeq(list, Cardinality(behind) + 1, Len(list))

\* sorted(list, key=lambda x: x['imported_by_count'], reverse=True): a stable
\* sort, entries of equal count keep their order
RECURSIVE sorted_by_count_desc(_)
sorted_by_count_desc(list) ==
    IF list = << >> THEN << >>
    ELSE insert_desc(sorted_by_count_desc(SubSeq(list, 1, Len(list) - 1)),
                     list[Len(list)])

find_hotspots(by, limit) == sorted_by_count_desc(hotspots_from(by, limit, 1))

\* the modules that may import: as many as the default threshold
ImporterSet == { << Alphabet[8 + n] >> : n \in 1..DefaultThreshold }

\* the imported_by dicts with n keys, in any insertion order, each with its
\* sorted list of importers
RECURSIVE ImportedByDicts(_)
ImportedByDicts(n) ==
    IF n = 0 THEN { EmptyDict }
    ELSE ImportedByDicts(n - 1)
         \cup UNION { { DictSet(d, key, Sorted(importers)) :
                          key \in NodeSet \ Keys(d),
                          importers \in SUBSET ImporterSet \ { {} } } :
                      d \in { x \in ImportedByDicts(n - 1) : Len(x.keys) = n - 1 } }

\* find_hotspots(graph['imported_by'], threshold) is called
InitHotspots ==
    /\ \E by \in ImportedByDicts(MaxHotspotKeys) :
          graph = [NoGraph EXCEPT !.imported_by = by]
    /\ threshold \in 1..DefaultThreshold
    /\ hotspots = << >>
    /\ pc = "hotspots"
    /\ BuildIdle
    /\ DfsIdle

\* lines 611-621
FindHotspots ==
    /\ pc = "hotspots"
    /\ hotspots' = find_hotspots(graph.imported_by, threshold)
    /\ pc' = "hotspots_done"
    /\ UNCHANGED << graph, build_vars, dfs_vars, threshold >>

NextHotspots == FindHotspots

SpecHotspots == InitHotspots /\ [][NextHotspots]_vars

\* C9: the list holds exactly the modules with at least threshold importers,
\* in descending order of count, and modules of equal count in the order of
\* their identifiers
C9_HotspotsSorted ==
    pc = "hotspots_done" =>
        /\ { hotspots[n].module : n \in 1..Len(hotspots) } =
               { m \in Keys(graph.imported_by) :
                   Cardinality(Range(graph.imported_by.val[m])) >= threshold }
        /\ \A n \in 1..Len(hotspots) :
              hotspots[n].imported_by_count =
                  Cardinality(Range(graph.imported_by.val[hotspots[n].module]))
        /\ \A n, m \in 1..Len(hotspots) :
              n < m =>
                  \/ hotspots[n].imported_by_count > hotspots[m].imported_by_count
                  \/ /\ hotspots[n].imported_by_count = hotspots[m].imported_by_count
                     /\ StrLess(hotspots[n].module, hotspots[m].module)

\* ------------------------------------------------------------------------
\* Termination of find_circular_dependencies
\* ------------------------------------------------------------------------

\* the function runs without interruption: a step that can be taken is taken
SpecCyclesFair == SpecCycles /\ WF_vars(NextCycles)

\* imports_graph.get(node, []) has this many entries
OutDegree(g, node) == IF node \in DOMAIN g.val THEN Len(g.val[node]) ELSE 0

\* the calls stack[1..n]: two for each neighbor left (the test of lines 571
\* and 580, and the call it may lead to), one for the return
RECURSIVE FrameSteps(_, _, _)
FrameSteps(st, g, n) ==
    IF n = 0 THEN 0
    ELSE 2 * (OutDegree(g, st[n].node) - st[n].next + 1) + 1 + FrameSteps(st, g, n - 1)

\* the same for the call of each of keys[1..n] not yet visited
RECURSIVE KeySteps(_, _, _)
KeySteps(g, seen, n) ==
    IF n = 0 THEN 0
    ELSE (IF g.keys[n] \in seen THEN 0 ELSE 2 * Len(g.val[g.keys[n]]) + 1)
         + KeySteps(g, seen, n - 1)

\* a bound on the steps find_circular_dependencies has left: those of every
\* call in progress and of every key not yet visited, the keys left in the
\* loop of line 593, and line 597
StepsLeft ==
    FrameSteps(stack, graph.imports, Len(stack))
    + KeySteps(graph.imports, visited, Len(graph.imports.keys))
    + 2 * (Len(graph.imports.keys) - root + 1)
    - (IF stack # << >> THEN 1 ELSE 0)
    + (IF pc = "cycles" THEN 1 ELSE 0)

\* some line of find_circular_dependencies can run: the conditions of lines
\* 571, 580, 587 and 594 leave no case out
CanStep ==
    \/ /\ stack # << >>
       /\ top.next <= Len(neighbors(top.node))
       /\ \/ neighbor \in rec_set
          \/ neighbor \notin rec_set /\ neighbor \in visited
          \/ neighbor \notin rec_set /\ neighbor \notin visited
    \/ /\ stack # << >>
       /\ top.next > Len(neighbors(top.node))
    \/ /\ stack = << >>
       /\ root <= Len(graph.imports.keys)
       /\ \/ graph.imports.keys[root] \notin visited /\ graph.imports.keys[root] \notin rec_set
          \/ graph.imports.keys[root] \in visited
    \/ /\ stack = << >>
       /\ root > Len(graph.imports.keys)

\* the conditions of CanStep are those under which NextCycles has a step
CanStepIsEnabled == pc = "cycles" => (CanStep <=> ENABLED NextCycles)

\* the function has returned, every key of the graph was visited and the
\* recursion stack is empty
Returned ==
    /\ pc = "cycles_done"
    /\ Keys(graph.imports) \subseteq visited
    /\ stack = << >>
    /\ rec_stack = << >>
    /\ rec_set = {}

\* C11: find_circular_dependencies terminates: every step uses up one of the
\* finitely many steps left, and the function is never stuck before line 597,
\* where every key of the graph is visited and the recursion stack is empty;
\* a call of dfs expands only a node not yet visited and marks it visited for
\* good, so no node is expanded twice
C11_Terminates ==
    /\ [][ /\ LET left == StepsLeft'
              IN  0 <= left /\ left < StepsLeft
           /\ visited \subseteq visited'
           /\ Len(stack') > Len(stack) =>
                 /\ stack'[Len(stack')].node \notin visited
                 /\ stack'[Len(stack')].node \in visited' ]_vars
    /\ [](pc = "cycles" => CanStep)
    /\ [](pc # "cycles" => Returned)

\* what C11_Terminates gives for a function that runs without interruption
C11_EventuallyReturned == <>[]Returned

\* C11 witness: the function has returned for a graph with a self-loop,
\* two cycles through one node and a key reached from an earlier key
C11_Witness ==
    /\ pc = "cycles_done"
    /\ \E x \in NodeSet : << x, x >> \in Edges
    /\ Len(circular) >= 2
    /\ \E n \in 2..Len(graph.imports.keys) :
          \E m \in 1..(n - 1) :
              << graph.imports.keys[m], graph.imports.keys[n] >> \in Edges
    /\ Keys(graph.imports) \subseteq visited
    /\ rec_stack = << >>

\* ------------------------------------------------------------------------
\* The cycles reported are cycles of the graph
\* ------------------------------------------------------------------------

\* c is closed, follows edges of the graph, and repeats no node but its first
ElementaryCycle(c) ==
    /\ Len(c) >= 2
    /\ c[1] = c[Len(c)]
    /\ \A n \in 1..(Len(c) - 1) : << c[n], c[n + 1] >> \in Edges
    /\ Distinct(SubSeq(c, 1, Len(c) - 1))

\* the path a call of dfs passes on at line 588, path + [node], for the call
\* stack[d], is the recursion stack up to that call
PathIsRecStack ==
    /\ Len(stack) = Len(rec_stack)
    /\ \A d \in 1..Len(stack) :
          /\ stack[d].node = rec_stack[d]
          /\ Append(stack[d].path, stack[d].node) = SubSeq(rec_stack, 1, d)

\* C13: every cycle found so far, and every cycle returned, is an elementary
\* cycle of imports_graph; at every point of the traversal the path of each
\* call of dfs is the recursion stack below it, rec_set holds exactly the
\* nodes of rec_stack, and no node is on the stack twice
C13_CyclesAreReal ==
    /\ \A n \in 1..Len(cycles) : ElementaryCycle(cycles[n])
    /\ \A n \in 1..Len(circular) : ElementaryCycle(circular[n])
    /\ pc = "cycles_done" => circular = cycles
    /\ PathIsRecStack
    /\ rec_set = Range(rec_stack)
    /\ Distinct(rec_stack)

\* C13 witness: a cycle that does not start at the root of the traversal is
\* found while three calls of dfs are in progress
C13_Witness ==
    /\ pc = "cycles"
    /\ Len(stack) = 3
    /\ Len(cycles) >= 1
    /\ stack[1].node \notin Range(cycles[1])
    /\ rec_stack = << stack[1].node, stack[2].node, stack[3].node >>

\* ------------------------------------------------------------------------
\* analyze_directory_deps: the graph is built, then searched for cycles
\* ------------------------------------------------------------------------

\* the import statements the files of one run hold in all
AnalyzeImports == MaxImports + 1

\* the contents of n files; a file that does not parse gives no statements,
\* whatever its text
AnalyzeSources(n) ==
    { s \in Sources(n, AnalyzeImports) :
        \A f \in 1..n : s[f].bad => TextSize(s[f]) = 0 }

\* the files of the pool an import can resolve to, in any order; with no
\* file line 634 returns before the graph is built
AnalyzeFileLists == { fl \in FileLists : fl # << >> /\ MainPy \notin Range(fl) }

InitAnalyze ==
    /\ files \in AnalyzeFileLists
    /\ source \in AnalyzeSources(Len(files))
    /\ pc = "modules"
    /\ i = 1
    /\ k = 1
    /\ module_to_file = EmptyDict
    /\ file_to_module_map = EmptyDict
    /\ all_imports = << >>
    /\ internal_modules = {}
    /\ internal_order = << >>
    /\ imports_graph = EmptyDict
    /\ imported_by = EmptyDict
    /\ external_deps = {}
    /\ graph = NoGraph
    /\ orphan_modules = << >>
    /\ DfsIdle
    /\ HotIdle

\* line 639: find_circular_dependencies(graph['imports']), lines 565-568
StartCycles ==
    /\ pc = "built"
    /\ pc' = "cycles"
    /\ cycles' = << >>
    /\ visited' = {}
    /\ rec_stack' = << >>
    /\ rec_set' = {}
    /\ UNCHANGED << graph, build_vars, hot_vars, stack, root, circular >>

\* lines 637 and 639 of analyze_directory_deps
NextAnalyze ==
    \/ RegisterModule
    \/ ExtractAll
    \/ SkipFailedFile
    \/ BeginFile
    \/ AddImport
    \/ EndImports
    \/ AddRelativeFromImport
    \/ AddAbsoluteFromImport
    \/ EndFile
    \/ ReturnGraph
    \/ StartCycles
    \/ DetectCycle
    \/ SkipVisited
    \/ Descend
    \/ Return
    \/ RootCall
    \/ SkipRoot
    \/ ReturnCycles

SpecAnalyze == InitAnalyze /\ [][NextAnalyze]_vars

\* the internal module "import <module>" resolves to, lines 520-522
import_target(imp) == first_match(imp.module, internal_order)

\* the internal module a from-import of the file resolves to, lines 533-537
\* and 542-544
from_import_target(file_path, imp) ==
    IF imp.level > 0
    THEN LET resolved == resolve_relative_import(PathParts(file_path), imp.module,
                                                 imp.level)
         IN  IF resolved # None /\ resolved # << >> /\ resolved \in internal_modules
             THEN resolved
             ELSE None
    ELSE first_match(imp.module, internal_order)

\* the module identifier of the n-th file
ModuleOf(n) == DictGet(file_to_module_map, all_imports[n].file, all_imports[n].file)

\* the n-th file parsed and holds an import that resolves to its own module
ImportsItself(n) ==
    /\ ~skipped(all_imports[n])
    /\ \/ \E m \in 1..Len(all_imports[n].imports) :
             import_target(all_imports[n].imports[m]) = ModuleOf(n)
       \/ \E m \in 1..Len(all_imports[n].from_imports) :
             from_import_target(all_imports[n].file, all_imports[n].from_imports[m])
                 = ModuleOf(n)

SelfImporters == { ModuleOf(n) : n \in { m \in 1..Len(all_imports) : ImportsItself(m) } }

Count(s, x) == Cardinality({ n \in 1..Len(s) : s[n] = x })

\* C12: once the graph is built, a module A with an import that resolves to
\* A has A in imports[A] and A in imported_by[A]; find_circular_dependencies
\* always has a next step on that graph until it returns, and the list it
\* returns holds [A, A] exactly once
C12_SelfImportIsCycle ==
    /\ pc \in { "built", "cycles", "cycles_done" } =>
          \A A \in SelfImporters :
              /\ << A, A >> \in ListEdges(graph.imports)
              /\ << A, A >> \in ListEdges(graph.imported_by)
    /\ pc = "cycles" => CanStep
    /\ pc = "cycles" => \A A \in SelfImporters : Count(cycles, << A, A >>) <= 1
    /\ pc = "cycles_done" =>
          \A A \in SelfImporters : Count(circular, << A, A >>) = 1

\* C12 witness: a module imports itself and is imported by another module,
\* and the list returned holds its one-node cycle
C12_Witness ==
    /\ pc = "cycles_done"
    /\ \E A \in SelfImporters :
          /\ \E B \in Keys(graph.imports) :
                B # A /\ << B, A >> \in ListEdges(graph.imports)
          /\ << A, A >> \in Range(circular)

====
